---- MODULE Spec2Model ----
(***************************************************************************)
(* Dual-channel broadcast orchestration (VaibhavAswal/liveStream).         *)
(*                                                                         *)
(* The module models the Express handlers of src/unnamed/part_001 (and the *)
(* places where src/final.js differs) as state machines whose steps are    *)
(* the awaits of the handlers: every remote platform call and every        *)
(* persistence call is one step whose outcome is chosen by the environment.*)
(*                                                                         *)
(*   SpecLive    POST /start-stream   (bringLive / attemptTransition)      *)
(*   SpecGoLive  POST /go-live-now    (getExistingStream,                  *)
(*                                     createBroadcastAndBind)             *)
(*   SpecEnd       POST /end-stream of src/unnamed/part_001                *)
(*   SpecEndFinal  POST /end-stream of src/final.js                        *)
(*   SpecCompare   compareStrings of POST /end-stream                      *)
(*   SpecCompany   POST /company, the company branch of GET /oauth2callback *)
(*                 and getCompanyOAuthClient with its `tokens` listener     *)
(***************************************************************************)
EXTENDS Integers, Sequences, FiniteSets, TLC

VARIABLES
  \* ---- one /start-stream request ----
  lpc,          \* position of the handler
  retryCount,   \* attemptTransition's parameter
  health,       \* the value of `health` in the running attemptTransition
  lerror,       \* the error travelling to the handler's catch
  lresponse,    \* the response sent, NoResponse until then
  pollCount,    \* history: checkStreamHealth calls started by attemptTransition
  observed,     \* history: results of the completed checkStreamHealth calls
  transLog,     \* history: transition requests issued, with their outcome
  delays,       \* history: inter-attempt delays started
  aborted,      \* the client has closed the connection of the request
  \* ---- persistence layer ----
  dbGrounds,    \* Academy.grounds: ground -> role -> remembered stream id (0: none)
  \* ---- remote platform ----
  rStreams,     \* channel -> ids of the streams that exist on that channel
  rBroadcasts,  \* the broadcasts that exist: [id, ch, stream (0: unbound)]
  \* ---- /go-live-now requests ----
  req,          \* request -> state of its handler
  creates,      \* history: ground -> role -> liveStreams.insert calls that succeeded
  writes,       \* history: ground -> role -> writes of the stream-id field
  \* ---- one /end-stream request ----
  variant,      \* which source file's handler runs: "part_001" or "final"
  active,       \* remote platform: channel -> its active broadcasts, in the
                \* order liveBroadcasts.list returns them
  golive,       \* history: the go-lives whose broadcasts went live on both channels
  epc,          \* position of the handler
  etitle,       \* req.body.title
  task,         \* channel -> state of its endBroadcast call
  eresponse,    \* the response sent, NoEndResponse until then
  transitions,  \* history: channel -> ids of the transition requests issued
  \* ---- one compareStrings call ----
  str1, str2,   \* the arguments
  cmpResult,    \* "none" before the call, then "equal" or "different"
  \* ---- the Company collection and the company credential handles ----
  companies,    \* the Company documents, in insertion order
  post,         \* POST /company request -> state of its handler
  handle,       \* getCompanyOAuthClient call -> the client it returned, with
                \* the `company` document its listener closes over
  issued,       \* token sets issued by the platform so far
  lastRotation  \* history: the latest `tokens` event

liveVars == <<lpc, retryCount, health, lerror, lresponse, pollCount, observed,
              transLog, delays, aborted>>
goVars == <<dbGrounds, rStreams, rBroadcasts, req, creates, writes>>
endVars == <<variant, active, golive, epc, etitle, task, eresponse, transitions>>
cmpVars == <<str1, str2, cmpResult>>
companyVars == <<companies, post, handle, issued, lastRotation>>
vars == <<liveVars, goVars, endVars, cmpVars, companyVars>>
\* what the steps of one handler leave alone
notLive == <<goVars, endVars, cmpVars, companyVars>>
notGoLive == <<liveVars, endVars, cmpVars, companyVars>>
notEnd == <<liveVars, goVars, cmpVars, companyVars>>
notCompare == <<liveVars, goVars, endVars, companyVars>>
notCompany == <<liveVars, goVars, endVars, cmpVars>>

(***************************************************************************)
(* POST /start-stream                                                      *)
(*                                                                         *)
(* The remote platform is the environment: what a poll observes and        *)
(* whether a call succeeds are chosen at the step that makes the call, so  *)
(* the broadcast and its stream may change in any way between two calls.   *)
(***************************************************************************)
MAX_RETRIES == 3

Lifecycles == {"created", "ready", "testing", "live", "complete"}
StreamStatuses == {"inactive", "active"}
\* status.healthStatus.status as the platform reports it; "missing" when the
\* stream resource carries no healthStatus object
HealthValues == {"noData", "bad", "ok", "good", "missing"}
\* the errors a remote call can return (spec section 6), by class: "transient"
\* stands for network, 5xx and rate-limit errors, "nonRetryable" for
\* not-found, permission-denied and unauthenticated ones
RemoteErrors == {"transient", "nonRetryable"}

NoHealth == [broadcastStatus |-> "none", streamStatus |-> "none",
             healthStatus |-> "none"]
NoResponse == [code |-> 0, success |-> FALSE, status |-> "none",
               details |-> "none", snapshot |-> NoHealth]

\* stream.status.healthStatus?.status || null
HealthStatusOf(h) == IF h = "missing" THEN "null" ELSE h

\* the three tests at the head of attemptTransition
GateSkipStatus(h) ==
  IF h.broadcastStatus = "live" THEN "alreadyLive"
  ELSE IF h.healthStatus # "good" THEN "Stream health is not good"
  ELSE "proceed"
GateSkipHealth(h) ==
  IF h.broadcastStatus = "live" THEN "alreadyLive"
  ELSE IF h.streamStatus # "active" THEN "Stream is not active"
  ELSE "proceed"
GateStatusFirst(h) ==
  IF h.streamStatus # "active" THEN "Stream is not active"
  ELSE IF h.broadcastStatus = "live" THEN "alreadyLive"
  ELSE IF h.healthStatus # "good" THEN "Stream health is not good"
  ELSE "proceed"
Gate(h) ==
  IF h.broadcastStatus = "live" THEN "alreadyLive"
  ELSE IF h.streamStatus # "active" THEN "Stream is not active"
  ELSE IF h.healthStatus # "good" THEN "Stream health is not good"
  ELSE "proceed"

\* if (health.broadcastStatus !== "testing"): the transition to testing is
\* requested first
NeedsTestingNever(h) == FALSE
NeedsTesting(h) == h.broadcastStatus # "testing"

\* if (retryCount < MAX_RETRIES)
CanRetryOneMore(rc) == rc <= MAX_RETRIES
CanRetryOneLess(rc) == rc < MAX_RETRIES - 1
CanRetry(rc) == rc < MAX_RETRIES

\* Does the identifier checkStreamHealth resolve in the handler's catch block?
\* It is a const of the try block, so it does not: evaluating it throws a
\* ReferenceError, which the inner catch turns into the 500 response.
HealthCheckInCatchScope == FALSE

LiveIdle ==
  /\ lpc = "idle"
  /\ retryCount = 0
  /\ health = NoHealth
  /\ lerror = "none"
  /\ lresponse = NoResponse
  /\ pollCount = 0
  /\ observed = <<>>
  /\ transLog = <<>>
  /\ delays = 0
  /\ aborted = FALSE

\* Academy.findOne and the choice of the OAuth client, then the first call of
\* attemptTransition
StartStream ==
  /\ UNCHANGED <<notLive, aborted>>
  /\ lpc = "idle"
  /\ \E out \in {"found", "missing", "throws"} :
       CASE out = "found" ->
              /\ lpc' = "pollBroadcast"
              /\ pollCount' = pollCount + 1
              /\ UNCHANGED <<lerror, lresponse>>
         [] out = "missing" ->
              /\ lpc' = "done"
              /\ lresponse' = [NoResponse EXCEPT !.code = 404,
                                                 !.details = "Academy not found"]
              /\ UNCHANGED <<lerror, pollCount>>
         [] out = "throws" ->
              /\ lpc' = "catch"
              /\ lerror' = "Company not authenticated"
              /\ UNCHANGED <<lresponse, pollCount>>
  /\ UNCHANGED <<retryCount, health, observed, transLog, delays>>

\* `const health = await checkStreamHealth()` stands before the try block of
\* attemptTransition: what the poll throws leaves attemptTransition, and every
\* caller returns the call's promise, so the error reaches the handler's catch
PollThrowsInsideTry(e) ==
  IF CanRetry(retryCount)
  THEN /\ lpc' = "delay"
       /\ delays' = delays + 1
       /\ UNCHANGED lerror
  ELSE /\ lpc' = "catch"
       /\ lerror' = e
       /\ UNCHANGED delays
PollThrows(e) ==
  /\ lpc' = "catch"
  /\ lerror' = e
  /\ UNCHANGED delays

\* checkStreamHealth, first await: liveBroadcasts.list({id: broadcastId})
PollBroadcast ==
  /\ UNCHANGED <<notLive, aborted>>
  /\ lpc = "pollBroadcast"
  /\ \/ \E life \in Lifecycles :
          /\ lpc' = "pollStream"
          /\ health' = [NoHealth EXCEPT !.broadcastStatus = life]
          /\ UNCHANGED <<lerror, delays>>
     \/ /\ PollThrows("Broadcast not found")
        /\ UNCHANGED health
     \/ /\ \E e \in RemoteErrors : PollThrows(e)
        /\ UNCHANGED health
  /\ UNCHANGED <<retryCount, lresponse, pollCount, observed, transLog>>

\* checkStreamHealth, second await: liveStreams.list({id: boundStreamId}),
\* then the head of attemptTransition up to its try block
PollStream ==
  /\ UNCHANGED <<notLive, aborted>>
  /\ lpc = "pollStream"
  /\ \/ \E st \in StreamStatuses, hv \in HealthValues :
          LET h == [health EXCEPT !.streamStatus = st,
                                  !.healthStatus = HealthStatusOf(hv)]
              g == Gate(h)
          IN /\ health' = h
             /\ observed' = Append(observed, h)
             /\ CASE g = "alreadyLive" ->
                       /\ lpc' = "done"
                       /\ lresponse' = [NoResponse EXCEPT !.code = 200,
                                          !.success = TRUE,
                                          !.status = h.broadcastStatus,
                                          !.details = "Broadcast is already live"]
                       /\ UNCHANGED <<lerror, delays>>
                  [] g = "proceed" ->
                       /\ lpc' = IF NeedsTesting(h) THEN "toTesting" ELSE "toLive"
                       /\ UNCHANGED <<lerror, lresponse, delays>>
                  [] OTHER ->
                       /\ lpc' = "catch"
                       /\ lerror' = g
                       /\ UNCHANGED <<lresponse, delays>>
     \/ /\ PollThrows("Stream not found")
        /\ UNCHANGED <<health, observed, lresponse>>
     \/ /\ \E e \in RemoteErrors : PollThrows(e)
        /\ UNCHANGED <<health, observed, lresponse>>
  /\ UNCHANGED <<retryCount, pollCount, transLog>>

\* the catch of attemptTransition's try block: retry after the delay, or
\* rethrow to the handler
TransitionFailedNoRethrow(e) ==
  IF CanRetry(retryCount)
  THEN /\ lpc' = "delay"
       /\ delays' = delays + 1
       /\ UNCHANGED lerror
  ELSE /\ lpc' = "done"
       /\ UNCHANGED <<lerror, delays>>
TransitionFailed(e) ==
  IF CanRetry(retryCount)
  THEN /\ lpc' = "delay"
       /\ delays' = delays + 1
       /\ UNCHANGED lerror
  ELSE /\ lpc' = "catch"
       /\ lerror' = e
       /\ UNCHANGED delays

\* liveBroadcasts.transition({broadcastStatus: "testing"})
TransitionToTesting ==
  /\ UNCHANGED <<notLive, aborted>>
  /\ lpc = "toTesting"
  /\ \E out \in {"ok"} \cup RemoteErrors :
       /\ transLog' = Append(transLog,
            [attempt |-> pollCount, to |-> "testing", out |-> out])
       /\ IF out = "ok"
          THEN /\ lpc' = "settle"
               /\ UNCHANGED <<lerror, delays>>
          ELSE TransitionFailed(out)
  /\ UNCHANGED <<retryCount, health, lresponse, pollCount, observed>>

\* setTimeout(resolve, 3000)
SettleWait ==
  /\ UNCHANGED <<notLive, aborted>>
  /\ lpc = "settle"
  /\ lpc' = "toLive"
  /\ UNCHANGED <<retryCount, health, lerror, lresponse, pollCount, observed,
                 transLog, delays>>

\* liveBroadcasts.transition({broadcastStatus: "live"})
TransitionToLive ==
  /\ UNCHANGED <<notLive, aborted>>
  /\ lpc = "toLive"
  /\ \E out \in {"ok"} \cup RemoteErrors :
       /\ transLog' = Append(transLog,
            [attempt |-> pollCount, to |-> "live", out |-> out])
       /\ IF out = "ok"
          THEN /\ lpc' = "done"
               /\ \E life \in {"live", "liveStarting"} :
                    lresponse' = [NoResponse EXCEPT !.code = 200,
                                    !.success = TRUE, !.status = life,
                                    !.details = "Stream started successfully"]
               /\ UNCHANGED <<lerror, delays>>
          ELSE /\ TransitionFailed(out)
               /\ UNCHANGED lresponse
  /\ UNCHANGED <<retryCount, health, pollCount, observed>>

\* return attemptTransition(retryCount + 1): the retry is a new call, which
\* starts at its checkStreamHealth call
RetryStartsAtTransition(h) == IF NeedsTesting(h) THEN "toTesting" ELSE "toLive"
RetryStartsAt(h) == "pollBroadcast"

\* setTimeout(resolve, DELAY_BETWEEN_RETRIES); return attemptTransition(retryCount + 1)
RetryDelay ==
  /\ UNCHANGED <<notLive, aborted>>
  /\ lpc = "delay"
  /\ lpc' = RetryStartsAt(health)
  /\ retryCount' = retryCount + 1
  /\ pollCount' = pollCount + 1
  /\ UNCHANGED <<health, lerror, lresponse, observed, transLog, delays>>

\* the handler's catch: `await checkStreamHealth()` inside a try of its own
StartStreamCatch ==
  /\ UNCHANGED <<notLive, aborted>>
  /\ lpc = "catch"
  /\ lpc' = "done"
  /\ IF HealthCheckInCatchScope
     THEN \/ \E life \in Lifecycles, st \in StreamStatuses, hv \in HealthValues :
               lresponse' = [NoResponse EXCEPT !.code = 400, !.details = lerror,
                  !.snapshot = [broadcastStatus |-> life, streamStatus |-> st,
                                healthStatus |-> HealthStatusOf(hv)]]
          \/ lresponse' = [NoResponse EXCEPT !.code = 500, !.details = lerror]
     ELSE lresponse' = [NoResponse EXCEPT !.code = 500, !.details = lerror]
  /\ UNCHANGED <<retryCount, health, lerror, pollCount, observed, transLog,
                 delays>>

\* The client gives up while the handler waits between two attempts.  The
\* handler registers no listener on the request and passes no signal to
\* attemptTransition, so nothing of its state changes.
ClientAbort ==
  /\ UNCHANGED notLive
  /\ lpc = "delay"
  /\ ~aborted
  /\ aborted' = TRUE
  /\ UNCHANGED <<lpc, retryCount, health, lerror, lresponse, pollCount, observed,
                 transLog, delays>>

NextLive ==
  \/ ClientAbort
  \/ StartStream
  \/ PollBroadcast
  \/ PollStream
  \/ TransitionToTesting
  \/ SettleWait
  \/ TransitionToLive
  \/ RetryDelay
  \/ StartStreamCatch

(***************************************************************************)
(* POST /go-live-now                                                       *)
(*                                                                         *)
(* Each request reads the Academy document once (its snapshot), then runs  *)
(* createBroadcastAndBind for the academy channel and, after that one      *)
(* returned, for the company channel, all inside one try block.  Requests  *)
(* run concurrently: their awaits interleave.                              *)
(***************************************************************************)
MaxRequests == 2

Requests == 1..MaxRequests
Grounds == {"G1", "G2"}
\* a groundId that no ground of the academy has
UnknownGround == "G0"
Roles == {"academy", "company"}
NoIds == [r \in Roles |-> 0]
NoFlags == [r \in Roles |-> FALSE]
\* no liveBroadcasts.bind call yet
NoBind == [id |-> 0, streamId |-> 0]
NoGoResponse == [code |-> 0, success |-> FALSE, academyStream |-> 0,
                 companyStream |-> 0, message |-> "none"]

IdleRequest ==
  [pc |-> "idle", role |-> "academy", ground |-> UnknownGround,
   found |-> FALSE,      \* academy.grounds.find(...) of the snapshot
   snap |-> NoIds,       \* the ground's stream ids in the snapshot
   fetched |-> [r \in Roles |-> "none"],  \* what liveStreams.list gave:
                         \* "hit" (an item), "empty" (no item), "error" (it threw)
   made |-> NoIds,       \* the stream this request's insert created
   stream |-> NoIds,     \* streamDetails.streamId returned by getExistingStream
   bcast |-> NoIds,      \* broadcastResponse.data.id
   binds |-> [r \in Roles |-> NoBind],  \* the arguments of the bind call
   bound |-> NoFlags,    \* liveBroadcasts.bind returned
   tried |-> NoFlags,    \* createBroadcastAndBind was called for the role
   response |-> NoGoResponse]

GoIdle ==
  /\ dbGrounds = [g \in Grounds |-> NoIds]
  /\ rStreams = [r \in Roles |-> {}]
  /\ rBroadcasts = {}
  /\ req = [q \in Requests |-> IdleRequest]
  /\ creates = [g \in Grounds |-> NoIds]
  /\ writes = [g \in Grounds |-> NoIds]

\* streamResponse.data.id, broadcastResponse.data.id: the platform gives every
\* resource it creates an id of its own.  A request creates at most one stream
\* and one broadcast per channel, so the id is named after its creator.
NewStreamId(q, role) == 2 * q - (IF role = "academy" THEN 1 ELSE 0)
NewBroadcastId(q, role) == 100 + 2 * q - (IF role = "academy" THEN 1 ELSE 0)

\* const updateField = isCompanyChannel ? "companyStreamId" : "academyStreamId"
UpdateFieldSwapped(role) == IF role = "company" THEN "academy" ELSE "company"
UpdateField(role) == role

\* the ground's remembered id for the role, as the request's snapshot has it
SnapshotStreamId(q) == req[q].snap[req[q].role]

\* if (streamId): the fetch is attempted only for a remembered id
ShouldFetchNever(id) == FALSE
ShouldFetch(id) == id # 0

\* liveBroadcasts.bind({id: broadcastResponse.data.id,
\*                      streamId: streamDetails.streamId})
BindArgsRemembered(q, role) ==
  [id |-> req[q].bcast[role], streamId |-> req[q].snap[role]]
BindArgs(q, role) ==
  [id |-> req[q].bcast[role], streamId |-> req[q].stream[role]]

\* the catch of the handler: res.status(500).json({success: false, message})
FailWithoutMessage(q, msg) ==
  [req EXCEPT ![q].pc = "done",
              ![q].response = [NoGoResponse EXCEPT !.code = 500]]
Fail(q, msg) ==
  [req EXCEPT ![q].pc = "done",
              ![q].response = [NoGoResponse EXCEPT !.code = 500, !.message = msg]]

\* const ground = academy.grounds.find(...); if (!ground) throw
GroundFoundAlways(g) == TRUE
GroundFound(g) == g \in Grounds

\* liveStreams.list returned an item: return its descriptor
OnFetchHitSkipsBroadcast(q, role, id) ==
  [req EXCEPT ![q].fetched[role] = "hit", ![q].stream[role] = id,
              ![q].pc = "bind"]
OnFetchHitPersists(q, role, id) ==
  [req EXCEPT ![q].fetched[role] = "hit", ![q].stream[role] = id,
              ![q].pc = "persist"]
OnFetchHit(q, role, id) ==
  [req EXCEPT ![q].fetched[role] = "hit", ![q].stream[role] = id,
              ![q].pc = "insertBroadcast"]

\* catch (error) { console.log(...) } around liveStreams.list: fall through to
\* the insert
OnFetchErrorRaises(q, role) ==
  [Fail(q, "liveStreams.list failed") EXCEPT ![q].fetched[role] = "error"]
OnFetchErrorSkipsInsert(q, role) ==
  [req EXCEPT ![q].fetched[role] = "error", ![q].pc = "insertBroadcast"]
OnFetchError(q, role) ==
  [req EXCEPT ![q].fetched[role] = "error", ![q].pc = "insertStream"]

\* Academy.findOneAndUpdate({academyId, "grounds.groundId": groundId},
\*   {$set: {[`grounds.$.${updateField}`]: id}}): one field of one ground
PersistedGroundsFromSnapshot(q, g, role, id) ==
  [dbGrounds EXCEPT ![g] = [req[q].snap EXCEPT ![UpdateField(role)] = id]]
PersistedGrounds(q, g, role, id) ==
  [dbGrounds EXCEPT ![g][UpdateField(role)] = id]

\* the request arrives; Academy.findOne({academyId})
GoLiveFindAcademy(q) ==
  /\ UNCHANGED notGoLive
  /\ req[q].pc = "idle"
  /\ q > 1 => req[q - 1].pc # "idle"
  /\ \/ \E g \in Grounds \cup {UnknownGround} :
          LET found == GroundFound(g)
              snap == IF g \in DOMAIN dbGrounds THEN dbGrounds[g] ELSE NoIds
              r0 == [req[q] EXCEPT !.ground = g, !.found = found, !.snap = snap,
                                   !.role = "academy",
                                   !.tried = [NoFlags EXCEPT !["academy"] = TRUE]]
          IN req' = [req EXCEPT ![q] =
               IF ~found THEN [r0 EXCEPT !.pc = "done",
                     !.response = [NoGoResponse EXCEPT !.code = 500,
                                       !.message = "Ground not found"]]
               ELSE [r0 EXCEPT !.pc =
                       IF ShouldFetch(snap["academy"]) THEN "fetch" ELSE "insertStream"]]
     \/ req' = [req EXCEPT ![q].pc = "done",
                  ![q].response = [NoGoResponse EXCEPT !.code = 400,
                                     !.message = "Academy not authenticated"]]
     \/ req' = Fail(q, "findOne failed")
  /\ UNCHANGED <<dbGrounds, rStreams, rBroadcasts, creates, writes>>

\* getExistingStream: youtube.liveStreams.list({id: streamId}) in its own try
FetchStream(q) ==
  /\ UNCHANGED notGoLive
  /\ req[q].pc = "fetch"
  /\ LET role == req[q].role
         id == SnapshotStreamId(q)
     IN \/ /\ id \in rStreams[role]        \* items.length > 0: return it
           /\ req' = OnFetchHit(q, role, id)
        \/ /\ id \notin rStreams[role]     \* no item: fall through to insert
           /\ req' = [req EXCEPT ![q].fetched[role] = "empty",
                                 ![q].pc = "insertStream"]
        \/ \* the call throws: logged, fall through to insert
           req' = OnFetchError(q, role)
  /\ UNCHANGED <<dbGrounds, rStreams, rBroadcasts, creates, writes>>

\* getExistingStream: youtube.liveStreams.insert
InsertStream(q) ==
  /\ UNCHANGED notGoLive
  /\ req[q].pc = "insertStream"
  /\ LET role == req[q].role
         g == req[q].ground
     IN \/ /\ rStreams' = [rStreams EXCEPT ![role] = @ \cup {NewStreamId(q, role)}]
           /\ creates' = [creates EXCEPT ![g][role] = @ + 1]
           /\ req' = [req EXCEPT ![q].made[role] = NewStreamId(q, role), ![q].pc = "persist"]
        \/ /\ req' = Fail(q, "liveStreams.insert failed")
           /\ UNCHANGED <<rStreams, creates>>
  /\ UNCHANGED <<dbGrounds, rBroadcasts, writes>>

\* getExistingStream: Academy.findOneAndUpdate({academyId, "grounds.groundId"},
\* {$set: {"grounds.$.<updateField>": id}}), then the return
PersistStreamId(q) ==
  /\ UNCHANGED notGoLive
  /\ req[q].pc = "persist"
  /\ LET role == req[q].role
         g == req[q].ground
         id == req[q].made[role]
     IN \/ /\ dbGrounds' = PersistedGrounds(q, g, role, id)
           /\ writes' = [writes EXCEPT ![g][UpdateField(role)] = @ + 1]
           /\ req' = [req EXCEPT ![q].stream[role] = id,
                                 ![q].pc = "insertBroadcast"]
        \/ /\ req' = Fail(q, "findOneAndUpdate failed")
           /\ UNCHANGED <<dbGrounds, writes>>
  /\ UNCHANGED <<rStreams, rBroadcasts, creates>>

\* createBroadcastAndBind: youtube.liveBroadcasts.insert
InsertBroadcast(q) ==
  /\ UNCHANGED notGoLive
  /\ req[q].pc = "insertBroadcast"
  /\ LET role == req[q].role
     IN \/ /\ rBroadcasts' = rBroadcasts \cup
                               {[id |-> NewBroadcastId(q, role), ch |-> role,
                                 stream |-> 0]}
           /\ req' = [req EXCEPT ![q].bcast[role] = NewBroadcastId(q, role), ![q].pc = "bind"]
        \/ /\ req' = Fail(q, "liveBroadcasts.insert failed")
           /\ UNCHANGED rBroadcasts
  /\ UNCHANGED <<dbGrounds, rStreams, creates, writes>>

\* createBroadcastAndBind: youtube.liveBroadcasts.bind, then the return; after
\* the academy sub-flow the handler goes on to getCompanyOAuthClient, after the
\* company sub-flow it answers
BindBroadcast(q) ==
  /\ UNCHANGED notGoLive
  /\ req[q].pc = "bind"
  /\ LET role == req[q].role
         args == BindArgs(q, role)
         r0 == [req[q] EXCEPT !.bound[role] = TRUE, !.binds[role] = args]
     IN \/ /\ rBroadcasts' =
                {IF x.id = args.id THEN [x EXCEPT !.stream = args.streamId] ELSE x :
                   x \in rBroadcasts}
           /\ req' = [req EXCEPT ![q] =
                IF role = "academy"
                THEN [r0 EXCEPT !.pc = "companyAuth"]
                ELSE [r0 EXCEPT !.pc = "done",
                        !.response = [NoGoResponse EXCEPT !.code = 200,
                           !.success = TRUE,
                           !.academyStream = r0.stream["academy"],
                           !.companyStream = r0.stream["company"]]]]
        \/ /\ req' = [Fail(q, "liveBroadcasts.bind failed") EXCEPT
                         ![q].binds[role] = args]
           /\ UNCHANGED rBroadcasts
  /\ UNCHANGED <<dbGrounds, rStreams, creates, writes>>

\* getCompanyOAuthClient: Company.findOne; then createBroadcastAndBind for the
\* company channel up to its first await
CompanyAuth(q) ==
  /\ UNCHANGED notGoLive
  /\ req[q].pc = "companyAuth"
  /\ \/ LET r0 == [req[q] EXCEPT !.role = "company", !.tried["company"] = TRUE]
        IN req' = [req EXCEPT ![q] =
             [r0 EXCEPT !.pc = IF ShouldFetch(r0.snap["company"])
                               THEN "fetch" ELSE "insertStream"]]
     \/ req' = Fail(q, "Company not authenticated")
  /\ UNCHANGED <<dbGrounds, rStreams, rBroadcasts, creates, writes>>

\* The channel's owner deletes a stream, so that its id no longer resolves.
\* Only liveStreams.list reads whether a stream exists, so a deletion is
\* modelled at the latest moment before a list call that will see it.
RemoteStreamDeleted ==
  /\ UNCHANGED notGoLive
  /\ \E q \in Requests :
       /\ req[q].pc = "fetch"
       /\ SnapshotStreamId(q) \in rStreams[req[q].role]
       /\ rStreams' = [rStreams EXCEPT ![req[q].role] = @ \ {SnapshotStreamId(q)}]
  /\ UNCHANGED <<dbGrounds, rBroadcasts, req, creates, writes>>

NextGoLive ==
  \/ \E q \in Requests : GoLiveFindAcademy(q)
  \/ \E q \in Requests : FetchStream(q)
  \/ \E q \in Requests : InsertStream(q)
  \/ \E q \in Requests : PersistStreamId(q)
  \/ \E q \in Requests : InsertBroadcast(q)
  \/ \E q \in Requests : BindBroadcast(q)
  \/ \E q \in Requests : CompanyAuth(q)
  \/ RemoteStreamDeleted

(***************************************************************************)
(* compareStrings (the title test of POST /end-stream in part_001)         *)
(*                                                                         *)
(* A string is a sequence of one-character strings.                        *)
(***************************************************************************)
MaxTitleLen == 4

\* characters that \s and trim() treat as white space, and letters of both cases
Whitespace == {" ", "\t"}
Letters == {"U", "u"}
Alphabet == Letters \cup Whitespace
Strings == UNION {[1..n -> Alphabet] : n \in 0..MaxTitleLen}

IsSpace(c) == c \in Whitespace

\* str.trim(): white space is removed from both ends
RECURSIVE TrimStart(_)
TrimStart(s) ==
  IF s = <<>> THEN s
  ELSE IF IsSpace(Head(s)) THEN TrimStart(Tail(s)) ELSE s

RECURSIVE TrimEnd(_)
TrimEnd(s) ==
  IF s = <<>> THEN s
  ELSE IF IsSpace(s[Len(s)]) THEN TrimEnd(SubSeq(s, 1, Len(s) - 1)) ELSE s

Trim(s) == TrimEnd(TrimStart(s))

\* .replace(/\s+/g, " "): every maximal run of white space becomes one space
RECURSIVE Collapse(_)
Collapse(s) ==
  IF s = <<>> THEN s
  ELSE IF IsSpace(Head(s)) THEN <<" ">> \o Collapse(TrimStart(Tail(s)))
       ELSE <<Head(s)>> \o Collapse(Tail(s))

\* const normalize = (str) => str.trim().replace(/\s+/g, " ")
normalizeUntrimmed(str) == Collapse(str)
normalize(str) == Collapse(Trim(str))

\* return normalize(str1) === normalize(str2)
compareStrings(a, b) == normalize(a) = normalize(b)

CompareIdle == str1 = <<>> /\ str2 = <<>> /\ cmpResult = "none"

\* one call compareStrings(str1, str2)
CallCompareStrings ==
  /\ UNCHANGED notCompare
  /\ cmpResult = "none"
  /\ cmpResult' = IF compareStrings(str1, str2) THEN "equal" ELSE "different"
  /\ UNCHANGED <<str1, str2>>

NextCompare == CallCompareStrings

(***************************************************************************)
(* POST /end-stream                                                        *)
(*                                                                         *)
(* One request.  Before it arrives, broadcasts go live on the channels:    *)
(* through /go-live-now and /start-stream (on both channels, under the     *)
(* title createBroadcastAndBind gave them) or by other means.  The handler *)
(* authenticates, then starts endBroadcast for both channels at once       *)
(* (Promise.all over two calls that are both already running); the two     *)
(* calls interleave at their awaits.  The handler answers when both calls  *)
(* returned or as soon as one of them threw.                               *)
(***************************************************************************)
MaxActive == 2

\* academy.name
AcademyName == <<"N">>
TitlePlain == <<"U", " ", "u">>
TitleWide == <<"U", " ", "\t", "u">>
TitleLower == <<"u", " ", "u">>
TitlePrefixed == AcademyName \o <<" ", "-", " ">> \o TitlePlain
Titles == {TitlePlain, TitleWide, TitleLower, TitlePrefixed}

NoEndResponse == [code |-> 0, success |-> "absent", academyStreamEnded |-> "absent",
                  companyStreamEnded |-> "absent", error |-> "none"]
\* pc: "none" (not called), "list", "transition", "true" / "false" (returned
\* that value), "rejected" (threw)
IdleTask == [pc |-> "none", listed |-> <<>>, target |-> 0]

EndIdle(v) ==
  /\ variant = v
  /\ active = [r \in Roles |-> <<>>]
  /\ golive = {}
  /\ epc = "idle"
  /\ etitle = <<>>
  /\ task = [r \in Roles |-> IdleTask]
  /\ eresponse = NoEndResponse
  /\ transitions = [r \in Roles |-> <<>>]

Other(ch) == CHOOSE r \in Roles : r # ch

\* createBroadcastAndBind: snippet: {title: title}, on either channel
BroadcastTitle(title) == title

\* the id the platform gives a broadcast of the channel
NewActiveId(ch) == (IF ch = "company" THEN 10 ELSE 0) + Len(active[ch]) + 1

\* final.js: isCompanyChannel ? `${academy.name} - ${title}` : title
SearchTitle(title, role) ==
  IF role = "company" THEN AcademyName \o <<" ", "-", " ">> \o title ELSE title

\* the predicate of searchResponse.data.items.find:
\*   part_001: compareStrings(b.snippet.title, title)
\*   final.js: b.snippet.title === (isCompanyChannel ? ... : title)
TitleMatchesAsFinal(v, bTitle, title, role) == bTitle = SearchTitle(title, role)
TitleMatchesAlways(v, bTitle, title, role) == TRUE
TitleMatches(v, bTitle, title, role) ==
  IF v = "final" THEN bTitle = SearchTitle(title, role)
  ELSE compareStrings(bTitle, title)

\* items.find(...): the first item that satisfies the predicate, 0 for undefined
LastMatch(items, role) ==
  LET idx == {i \in 1..Len(items) :
                TitleMatches(variant, items[i].title, etitle, role)}
  IN IF idx = {} THEN 0
     ELSE items[CHOOSE i \in idx : \A j \in idx : i >= j].id
FirstMatch(items, role) ==
  LET idx == {i \in 1..Len(items) :
                TitleMatches(variant, items[i].title, etitle, role)}
  IN IF idx = {} THEN 0
     ELSE items[CHOOSE i \in idx : \A j \in idx : i <= j].id

\* Promise.all leaves the other call running when one call has thrown
CancelledWhenSiblingRejected(ch) == task[Other(ch)].pc = "rejected"
CancelledBySibling(ch) == FALSE

\* a go-live with title t and the start of its two broadcasts
GoLiveStarted(t) ==
  /\ UNCHANGED notEnd
  /\ epc = "idle"
  /\ \A r \in Roles : Len(active[r]) < MaxActive
  /\ active' = [r \in Roles |->
                  Append(active[r], [id |-> NewActiveId(r), title |-> BroadcastTitle(t)])]
  /\ golive' = golive \cup {t}
  /\ UNCHANGED <<variant, epc, etitle, task, eresponse, transitions>>

\* a broadcast of one channel goes live by other means
BroadcastStartedElsewhere(ch, t) ==
  /\ UNCHANGED notEnd
  /\ epc = "idle"
  /\ Len(active[ch]) < MaxActive
  /\ active' = [active EXCEPT ![ch] = Append(@, [id |-> NewActiveId(ch), title |-> t])]
  /\ UNCHANGED <<variant, golive, epc, etitle, task, eresponse, transitions>>

\* the request arrives; Academy.findOne({academyId})
EndStreamFindAcademy(t) ==
  /\ UNCHANGED notEnd
  /\ epc = "idle"
  /\ etitle' = t
  /\ \/ epc' = "companyAuth" /\ UNCHANGED eresponse
     \/ /\ epc' = "done"
        /\ eresponse' = [NoEndResponse EXCEPT !.code = 400,
                                              !.error = "Academy not authenticated"]
     \/ /\ epc' = "done"
        /\ eresponse' = [NoEndResponse EXCEPT !.code = 500, !.error = "findOne failed"]
  /\ UNCHANGED <<variant, active, golive, task, transitions>>

\* getCompanyOAuthClient; then both endBroadcast calls run up to their first
\* await, the list call
EndStreamCompanyAuth ==
  /\ UNCHANGED notEnd
  /\ epc = "companyAuth"
  /\ \/ /\ epc' = "tasks"
        /\ task' = [r \in Roles |-> [IdleTask EXCEPT !.pc = "list"]]
        /\ UNCHANGED eresponse
     \/ /\ epc' = "done"
        /\ eresponse' = [NoEndResponse EXCEPT !.code = 500,
                                              !.error = "Company not authenticated"]
        /\ UNCHANGED task
  /\ UNCHANGED <<variant, active, golive, etitle, transitions>>

\* the endBroadcast call of channel ch settles as rec; the handler answers when
\* both calls returned (res.json) or when the first call threw (the catch)
Settle(ch, rec, msg) ==
  /\ task' = [task EXCEPT ![ch] = rec]
  /\ eresponse' =
       IF eresponse.code # 0 THEN eresponse
       ELSE IF rec.pc = "rejected"
            THEN [NoEndResponse EXCEPT !.code = 500, !.error = msg]
       ELSE IF rec.pc \in {"true", "false"} /\ task[Other(ch)].pc \in {"true", "false"}
            THEN [code |-> 200, success |-> "true",
                  academyStreamEnded |-> task'["academy"].pc,
                  companyStreamEnded |-> task'["company"].pc,
                  error |-> "none"]
       ELSE eresponse

\* endBroadcast: liveBroadcasts.list({broadcastStatus: "active"}) throws or
\* returns; items.find
ListActiveBroadcasts(ch) ==
  /\ UNCHANGED notEnd
  /\ task[ch].pc = "list"
  /\ ~CancelledBySibling(ch)
  /\ \/ Settle(ch, [task[ch] EXCEPT !.pc = "rejected"], "liveBroadcasts.list failed")
     \/ LET found == FirstMatch(active[ch], ch)
            r0 == [task[ch] EXCEPT !.listed = active[ch], !.target = found]
        IN IF found # 0
           THEN task' = [task EXCEPT ![ch] = [r0 EXCEPT !.pc = "transition"]]
                /\ UNCHANGED eresponse
           ELSE Settle(ch, [r0 EXCEPT !.pc = "false"], "none")
  /\ UNCHANGED <<variant, active, golive, epc, etitle, transitions>>

\* endBroadcast: liveBroadcasts.transition({id, broadcastStatus: "complete"})
\* returns or throws
TransitionToComplete(ch) ==
  /\ UNCHANGED notEnd
  /\ task[ch].pc = "transition"
  /\ ~CancelledBySibling(ch)
  /\ transitions' = [transitions EXCEPT ![ch] = Append(@, task[ch].target)]
  /\ \/ /\ active' = [active EXCEPT ![ch] =
                        SelectSeq(@, LAMBDA b : b.id # task[ch].target)]
        /\ Settle(ch, [task[ch] EXCEPT !.pc = "true"], "none")
     \/ /\ Settle(ch, [task[ch] EXCEPT !.pc = "rejected"],
                  "liveBroadcasts.transition failed")
        /\ UNCHANGED active
  /\ UNCHANGED <<variant, golive, epc, etitle>>

NextEnd ==
  \/ \E t \in Titles : GoLiveStarted(t)
  \/ \E ch \in Roles : \E t \in Titles : BroadcastStartedElsewhere(ch, t)
  \/ \E t \in Titles : EndStreamFindAcademy(t)
  \/ EndStreamCompanyAuth
  \/ \E ch \in Roles : ListActiveBroadcasts(ch)
  \/ \E ch \in Roles : TransitionToComplete(ch)

(***************************************************************************)
(* The Company collection: POST /company, GET /oauth2callback with state   *)
(* "company", getCompanyOAuthClient and the `tokens` listener it registers *)
(*                                                                         *)
(* A token set is a function from the token fields to the value each field *)
(* has, 0 for a field the set does not have.  The platform decides which   *)
(* fields a refresh returns, so a `tokens` event carries any non-empty     *)
(* set of fields; every token set issued has values of its own.            *)
(***************************************************************************)
MaxPosts == 2
MaxHandles == 2
MaxIssued == 3

Posts == 1..MaxPosts
Handles == 1..MaxHandles
TokenFields == {"access_token", "refresh_token"}
NoTokens == [f \in TokenFields |-> 0]
NoPostResponse == [code |-> 0, error |-> "none", created |-> 0]
IdlePost == [pc |-> "idle", response |-> NoPostResponse]
\* state: "none" (not called), "ready" (client returned), "failed" (threw)
NoHandle == [state |-> "none", company |-> 0, tokens |-> NoTokens]
NoRotation == [n |-> 0, handle |-> 0, company |-> 0, newTokens |-> NoTokens,
               persisted |-> FALSE]

CompanyIdle ==
  /\ companies = <<>>
  /\ post = [r \in Posts |-> IdlePost]
  /\ handle = [h \in Handles |-> NoHandle]
  /\ issued = 0
  /\ lastRotation = NoRotation

\* {...a, ...b}: the fields of b override, the other fields of a are kept
Spread(a, b) == [f \in TokenFields |-> IF b[f] # 0 THEN b[f] ELSE a[f]]

\* Company.findOne(): the first document, if any
HasCompany == companies # <<>>
\* company.youtubeTokens is set
Authenticated(c) == c.tokens # NoTokens

\* Company.findOneAndUpdate({_id: id}, {youtubeTokens: tokens})
WithTokens(id, tokens) ==
  [i \in 1..Len(companies) |->
     IF companies[i].id = id THEN [companies[i] EXCEPT !.tokens = tokens]
     ELSE companies[i]]

\* `company.youtubeTokens` in the listener: the document that
\* getCompanyOAuthClient read, which no later write changes
ListenerBase(h) == handle[h].tokens

\* POST /company: const existingCompany = await Company.findOne()
PostCompanyFindOne(r) ==
  /\ UNCHANGED notCompany
  /\ post[r].pc = "idle"
  /\ r > 1 => post[r - 1].pc # "idle"
  /\ \/ post' = [post EXCEPT ![r] =
                  IF HasCompany
                  THEN [pc |-> "done",
                        response |-> [NoPostResponse EXCEPT !.code = 400,
                                        !.error = "Company already exists"]]
                  ELSE [post[r] EXCEPT !.pc = "save"]]
     \/ post' = [post EXCEPT ![r] =
                  [pc |-> "done",
                   response |-> [NoPostResponse EXCEPT !.code = 500,
                                   !.error = "findOne failed"]]]
  /\ UNCHANGED <<companies, handle, issued, lastRotation>>

\* POST /company: await company.save(); res.json(company)
PostCompanySave(r) ==
  /\ UNCHANGED notCompany
  /\ post[r].pc = "save"
  /\ \/ LET id == Len(companies) + 1
        IN /\ companies' = Append(companies, [id |-> id, tokens |-> NoTokens])
           /\ post' = [post EXCEPT ![r] =
                 [pc |-> "done",
                  response |-> [NoPostResponse EXCEPT !.code = 200, !.created = id]]]
     \/ /\ post' = [post EXCEPT ![r] =
              [pc |-> "done",
               response |-> [NoPostResponse EXCEPT !.code = 500,
                               !.error = "save failed"]]]
        /\ UNCHANGED companies
  /\ UNCHANGED <<handle, issued, lastRotation>>

\* GET /oauth2callback with state "company":
\* Company.findOneAndUpdate({}, {youtubeTokens: tokens})
CompanyAuthorized ==
  /\ UNCHANGED notCompany
  /\ HasCompany
  /\ issued < MaxIssued
  /\ issued' = issued + 1
  /\ companies' = WithTokens(companies[1].id, [f \in TokenFields |-> issued + 1])
  /\ UNCHANGED <<post, handle, lastRotation>>

\* getCompanyOAuthClient: Company.findOne, setCredentials, on("tokens", ...)
GetCompanyOAuthClient(h) ==
  /\ UNCHANGED notCompany
  /\ handle[h].state = "none"
  /\ h > 1 => handle[h - 1].state # "none"
  /\ \/ handle' = [handle EXCEPT ![h] =
                    IF HasCompany /\ Authenticated(companies[1])
                    THEN [state |-> "ready", company |-> companies[1].id,
                          tokens |-> companies[1].tokens]
                    ELSE [NoHandle EXCEPT !.state = "failed"]]
     \/ handle' = [handle EXCEPT ![h] = [NoHandle EXCEPT !.state = "failed"]]
  /\ UNCHANGED <<companies, post, issued, lastRotation>>

\* the listener of the client's `tokens` event:
\*   updatedTokens = {...company.youtubeTokens, ...newTokens}
\*   await Company.findOneAndUpdate({_id: company._id}, {youtubeTokens: updatedTokens})
TokensRotated(h) ==
  /\ UNCHANGED notCompany
  /\ handle[h].state = "ready"
  /\ issued < MaxIssued
  /\ issued' = issued + 1
  /\ \E fs \in (SUBSET TokenFields) \ {{}} :
       LET newTokens == [f \in TokenFields |-> IF f \in fs THEN issued + 1 ELSE 0]
           updatedTokens == Spread(ListenerBase(h), newTokens)
           event == [n |-> lastRotation.n + 1, handle |-> h,
                     company |-> handle[h].company, newTokens |-> newTokens,
                     persisted |-> TRUE]
       IN \/ /\ companies' = WithTokens(handle[h].company, updatedTokens)
             /\ lastRotation' = event
          \/ \* the write throws: nothing awaits the listener's promise
             /\ lastRotation' = [event EXCEPT !.persisted = FALSE]
             /\ UNCHANGED companies
  /\ UNCHANGED <<post, handle>>

NextCompany ==
  \/ \E r \in Posts : PostCompanyFindOne(r)
  \/ \E r \in Posts : PostCompanySave(r)
  \/ CompanyAuthorized
  \/ \E h \in Handles : GetCompanyOAuthClient(h)
  \/ \E h \in Handles : TokensRotated(h)

InitLive == LiveIdle /\ GoIdle /\ EndIdle("part_001") /\ CompareIdle /\ CompanyIdle
SpecLive == InitLive /\ [][NextLive]_vars
\* every remote call and every timer of the handler completes
SpecLiveFair == SpecLive /\ WF_vars(NextLive)

InitGoLive == LiveIdle /\ GoIdle /\ EndIdle("part_001") /\ CompareIdle /\ CompanyIdle
SpecGoLive == InitGoLive /\ [][NextGoLive]_vars

InitEnd == LiveIdle /\ GoIdle /\ EndIdle("part_001") /\ CompareIdle /\ CompanyIdle
SpecEnd == InitEnd /\ [][NextEnd]_vars

InitEndFinal == LiveIdle /\ GoIdle /\ EndIdle("final") /\ CompareIdle /\ CompanyIdle
SpecEndFinal == InitEndFinal /\ [][NextEnd]_vars

InitCompare ==
  /\ LiveIdle /\ GoIdle /\ EndIdle("part_001") /\ CompanyIdle
  /\ str1 \in Strings
  /\ str2 \in Strings
  /\ cmpResult = "none"
SpecCompare == InitCompare /\ [][NextCompare]_vars

InitCompany == LiveIdle /\ GoIdle /\ EndIdle("part_001") /\ CompareIdle /\ CompanyIdle
SpecCompany == InitCompany /\ [][NextCompany]_vars
(***************************************************************************)
(* Properties of POST /start-stream, checked under SpecLive                *)
(***************************************************************************)
\* the attempts are numbered by their poll: attempt i observed observed[i]
Attempts == 1..Len(observed)
TransitionsOf(i) == {j \in 1..Len(transLog) : transLog[j].attempt = i}
Ended == lpc \in {"catch", "done"}
FailureSent == lpc = "done" /\ ~lresponse.success /\ lresponse.code >= 400

\* C1: a request whose first poll observes a lifecycle other than live and a
\* stream status other than active ends in failure, after that one poll, and
\* no transition request is issued during the request.
C1_FastFailNotActive ==
  (/\ Len(observed) >= 1
   /\ observed[1].broadcastStatus # "live"
   /\ observed[1].streamStatus # "active")
  => /\ transLog = <<>>
     /\ pollCount = 1
     /\ Ended
     /\ lpc = "done" => FailureSent

C1_Witness ==
  /\ FailureSent
  /\ Len(observed) = 1
  /\ observed[1].broadcastStatus = "ready"
  /\ observed[1].streamStatus = "inactive"
  /\ observed[1].healthStatus = "good"

\* C2: when every poll observes an active stream with good health and a
\* non-live lifecycle and every transition request fails with a transient
\* error, the request ends after exactly MAX_RETRIES + 1 attempts, each of one
\* poll and one (failed) transition request, and reports failure; no request
\* makes more than MAX_RETRIES + 1 attempts.
EveryPollGood ==
  \A i \in Attempts : /\ observed[i].broadcastStatus # "live"
                      /\ observed[i].streamStatus = "active"
                      /\ observed[i].healthStatus = "good"
EveryTransitionTransient ==
  \A j \in 1..Len(transLog) : transLog[j].out = "transient"

C2_RetryBound ==
  /\ pollCount <= MAX_RETRIES + 1
  /\ (/\ lpc = "done"
      /\ pollCount >= 1
      /\ Len(observed) = pollCount
      /\ EveryPollGood
      /\ EveryTransitionTransient)
     => /\ pollCount = MAX_RETRIES + 1
        /\ Len(transLog) = MAX_RETRIES + 1
        /\ \A i \in Attempts : Cardinality(TransitionsOf(i)) = 1
        /\ FailureSent

C2_Witness ==
  /\ FailureSent
  /\ pollCount = 4
  /\ Len(observed) = 4
  /\ EveryPollGood
  /\ EveryTransitionTransient
  /\ Len(transLog) = 4

\* C3: a failure response of bringLive carries the last observed broadcast
\* lifecycle, stream status and health status.
C3_FailureCarriesSnapshot ==
  (FailureSent /\ pollCount >= 1) => lresponse.snapshot # NoHealth

\* C9: an attempt whose poll observes lifecycle live ends the request with a
\* success response at once, whatever the stream status and health observed,
\* and no transition request is issued in that attempt.
C9_AlreadyLive ==
  \A i \in Attempts :
    observed[i].broadcastStatus = "live"
    => /\ i = pollCount
       /\ lpc = "done"
       /\ lresponse.success /\ lresponse.code = 200
       /\ lresponse.status = "live"
       /\ TransitionsOf(i) = {}

C9_Witness ==
  /\ lpc = "done"
  /\ lresponse.success
  /\ Len(observed) = 2
  /\ observed[2].broadcastStatus = "live"
  /\ observed[2].streamStatus = "inactive"
  /\ observed[2].healthStatus = "null"

\* C10: every transition request belongs to an attempt whose own poll observed
\* stream status active and health good; an attempt whose poll observes a
\* non-live lifecycle and a health other than good issues no transition
\* request, is the last attempt of the request, and ends it in failure.
C10_HealthGate ==
  /\ \A j \in 1..Len(transLog) :
       /\ transLog[j].attempt \in Attempts
       /\ observed[transLog[j].attempt].streamStatus = "active"
       /\ observed[transLog[j].attempt].healthStatus = "good"
  /\ \A i \in Attempts :
       (observed[i].broadcastStatus # "live" /\ observed[i].healthStatus # "good")
       => /\ TransitionsOf(i) = {}
          /\ i = pollCount
          /\ Ended
          /\ lpc = "done" => FailureSent

C10_Witness ==
  /\ FailureSent
  /\ Len(observed) = 2
  /\ observed[2].broadcastStatus = "testing"
  /\ observed[2].streamStatus = "active"
  /\ observed[2].healthStatus \in {"noData", "bad", "ok", "null"}
  /\ Len(transLog) >= 1

\* C11: within an attempt, the transition to live is requested only after the
\* attempt's poll observed lifecycle testing, or after a transition to testing
\* requested in the same attempt returned and the settle wait elapsed; no
\* transition to testing is requested in an attempt whose poll observed
\* testing; a failed transition to testing is the attempt's last request.
TransitionOrder ==
  \A j \in 1..Len(transLog) :
    LET a == transLog[j].attempt
    IN /\ transLog[j].to = "live"
          => \/ observed[a].broadcastStatus = "testing"
             \/ /\ j > 1
                /\ transLog[j - 1] = [attempt |-> a, to |-> "testing", out |-> "ok"]
       /\ transLog[j].to = "testing" => observed[a].broadcastStatus # "testing"
       /\ (transLog[j].to = "testing" /\ transLog[j].out # "ok")
          => \A k \in (j + 1)..Len(transLog) : transLog[k].attempt # a

C11_TestingBeforeLive ==
  [][/\ TransitionOrder'
     /\ lpc' = "settle"
        => /\ lpc = "toTesting"
           /\ transLog'[Len(transLog')] =
                [attempt |-> pollCount, to |-> "testing", out |-> "ok"]
     /\ (lpc' = "toLive" /\ lpc # "toLive")
        => \/ lpc = "settle"
           \/ lpc = "pollStream" /\ health'.broadcastStatus = "testing"
     /\ (Len(transLog') > Len(transLog) /\ transLog'[Len(transLog')].to = "live")
        => lpc = "toLive"]_vars

C11_Witness ==
  /\ Len(observed) = 2
  /\ observed[2].broadcastStatus = "ready"
  /\ Len(transLog) = 3
  /\ transLog[1] = [attempt |-> 1, to |-> "testing", out |-> "transient"]
  /\ transLog[2] = [attempt |-> 2, to |-> "testing", out |-> "ok"]
  /\ transLog[3].attempt = 2 /\ transLog[3].to = "live"

\* C23: a transition request that fails with a non-retryable error is the
\* last remote call of the request: no delay, poll or transition follows it.
C23_NonRetryableNotRetried ==
  \A j \in 1..Len(transLog) :
    transLog[j].out = "nonRetryable"
      => /\ j = Len(transLog)
         /\ pollCount = transLog[j].attempt
         /\ delays = transLog[j].attempt - 1

\* C24: every retry starts with a poll of its own, and what that poll observes
\* is tested before any transition: a retry whose poll observes lifecycle live
\* is answered with success and requests no transition; a retry whose poll
\* observes a stream that is not active or a health that is not good fails
\* the request, with no transition and no further retry.
RetriesPollFirst ==
  \A i \in Attempts :
    i >= 2
      => /\ observed[i].broadcastStatus = "live"
            => /\ TransitionsOf(i) = {}
               /\ pollCount = i
               /\ lpc = "done"
               /\ lresponse.success
               /\ lresponse.code = 200
         /\ (/\ observed[i].broadcastStatus # "live"
             /\ \/ observed[i].streamStatus # "active"
                \/ observed[i].healthStatus # "good")
            => /\ TransitionsOf(i) = {}
               /\ pollCount = i
               /\ retryCount = i - 1
               /\ delays = i - 1
               /\ Ended
               /\ lpc = "done" => FailureSent

C24_RetryRestartsFromPoll ==
  [][/\ RetriesPollFirst'
     /\ (lpc = "delay" /\ aborted' = aborted)
        => /\ lpc' = "pollBroadcast"
           /\ pollCount' = pollCount + 1
           /\ retryCount' = retryCount + 1
           /\ transLog' = transLog
     /\ Len(transLog') > Len(transLog)
        => /\ Len(observed) = pollCount
           /\ transLog'[Len(transLog')].attempt = pollCount
           /\ health = observed[pollCount]]_vars

C24_Witness ==
  /\ Len(observed) = 3
  /\ observed[2].broadcastStatus = "ready"
  /\ observed[3].broadcastStatus = "testing"
  /\ observed[3].healthStatus = "bad"
  /\ Len(transLog) = 2
  /\ lpc = "done"
  /\ FailureSent

\* C25: when every remote call and timer completes, a /start-stream request
\* reaches its end and has sent a response; a response once sent is not
\* followed by another, and nothing happens after the end.
C25_Terminates ==
  /\ (lpc # "idle") ~> (lpc = "done" /\ lresponse # NoResponse)
  /\ [][/\ lresponse # NoResponse => lresponse' = lresponse
        /\ lpc = "done" => UNCHANGED liveVars
        /\ lresponse' # lresponse => lpc' = "done"]_vars

C25_Witness ==
  /\ lpc = "done"
  /\ retryCount = MAX_RETRIES
  /\ Len(transLog) = MAX_RETRIES + 1
  /\ lresponse.code = 500

\* C27: after the client aborted the request during the wait between two
\* attempts, no poll and no transition request is issued.
C27_AbortStopsRetries ==
  [][aborted => (pollCount' = pollCount /\ transLog' = transLog)]_vars

\* C33: whatever the remote platform answers, one request starts at most
\* MAX_RETRIES + 1 = 4 polls through attemptTransition, issues in each attempt
\* at most one transition request to testing and at most one to live, hence
\* at most 8 transition requests in all, and starts at most 3 delays.
TransitionsTo(i, target) == {j \in TransitionsOf(i) : transLog[j].to = target}

C33_RemoteCallBounds ==
  /\ pollCount <= MAX_RETRIES + 1
  /\ pollCount <= 4
  /\ \A j \in 1..Len(transLog) : transLog[j].attempt \in 1..pollCount
  /\ \A i \in 1..pollCount :
       /\ Cardinality(TransitionsTo(i, "testing")) <= 1
       /\ Cardinality(TransitionsTo(i, "live")) <= 1
       /\ Cardinality(TransitionsOf(i)) <= 2
  /\ Len(transLog) <= 8
  /\ delays <= MAX_RETRIES
  /\ delays <= 3

\* the bounds are met: four attempts of two transition requests each
C33_Witness ==
  /\ lpc = "done"
  /\ pollCount = 4
  /\ Len(transLog) = 8
  /\ \A i \in 1..4 : Cardinality(TransitionsOf(i)) = 2
  /\ delays = 3

\* C34: a failure of the status poll itself (broadcast not found, bound
\* stream not found, or an error of either list call), on the first attempt
\* or on a retry, is never retried: whatever the number of retries left, it
\* goes to the handler's catch, which answers with a failure, and no poll, no
\* transition request and no delay follows it.
Polling == lpc \in {"pollBroadcast", "pollStream"}
PollErrors == {"Broadcast not found", "Stream not found"} \cup RemoteErrors
\* the last poll started by attemptTransition ended without a result
PollFailed == ~Polling /\ Len(observed) < pollCount

C34_PollFailureNotRetried ==
  [][/\ (Polling /\ PollFailed') =>
          /\ lpc' = "catch"
          /\ lerror' \in PollErrors
          /\ delays' = delays
     /\ PollFailed =>
          /\ lpc = "catch"
          /\ lpc' = "done"
          /\ ~lresponse'.success
          /\ lresponse'.code >= 400
          /\ lresponse'.details = lerror
          /\ pollCount' = pollCount
          /\ retryCount' = retryCount
          /\ transLog' = transLog
          /\ delays' = delays]_vars

\* the poll of the first retry fails with all but one retry left, and the
\* request has ended in failure
C34_Witness ==
  /\ PollFailed
  /\ lpc = "done"
  /\ retryCount = 1
  /\ pollCount = 2
  /\ lerror = "Stream not found"
  /\ lresponse.code = 500
  /\ delays = 1

(***************************************************************************)
(* Properties of POST /go-live-now, checked under SpecGoLive               *)
(***************************************************************************)
GoDone(q) == req[q].pc = "done"
\* the role's sub-flow of request q ran to the end of createBroadcastAndBind
SubflowSucceeded(q, role) == req[q].bound[role]
SubflowFailed(q, role) == GoDone(q) /\ req[q].tried[role] /\ ~req[q].bound[role]

\* C4: if the academy-channel sub-flow of a request (stream resolution,
\* broadcast creation or bind, for a ground the academy has) fails, the
\* company-channel sub-flow is still attempted.
C4_CompanyStillAttempted ==
  \A q \in Requests :
    (SubflowFailed(q, "academy") /\ req[q].found) => req[q].tried["company"]

\* C5: when exactly one of the two channel sub-flows succeeded, the response
\* reports success with the result of the channel that succeeded, never a
\* total failure.
C5_PartialResultReported ==
  \A q \in Requests :
    (GoDone(q) /\ SubflowSucceeded(q, "academy") /\ ~SubflowSucceeded(q, "company"))
    => /\ req[q].response.success
       /\ req[q].response.academyStream = req[q].stream["academy"]

\* C6 as claimed: a resolution whose venue snapshot remembers a stream id (a
\* resolution before the read succeeded with it) returns that id and issues no
\* createStream call.
C6_SecondResolutionReuses ==
  \A q \in Requests : \A role \in Roles :
    (req[q].tried[role] /\ req[q].snap[role] # 0)
    => /\ req[q].made[role] = 0
       /\ req[q].stream[role] # 0 => req[q].stream[role] = req[q].snap[role]

\* C6 as amended: the stream id a venue snapshot remembers is the id that an
\* earlier resolution for the same venue and role created and returned; a
\* resolution whose snapshot remembers an id fetches that id; when the fetch
\* returns the stream, the resolution returns the remembered id and issues no
\* createStream call; when the fetch returns no item or throws, the resolution
\* returns only a stream it created itself.
C6_ReusesWhenFetchHits ==
  \A q \in Requests : \A role \in Roles :
    /\ (req[q].found /\ req[q].snap[role] # 0)
       => \E p \in Requests \ {q} :
            /\ req[p].ground = req[q].ground
            /\ req[p].made[role] = req[q].snap[role]
            /\ req[p].stream[role] = req[q].snap[role]
    /\ (req[q].tried[role] /\ req[q].found /\ req[q].snap[role] # 0)
       => req[q].fetched[role] # "none" \/ (req[q].pc = "fetch" /\ req[q].role = role)
    /\ req[q].fetched[role] = "hit"
       => /\ req[q].snap[role] # 0
          /\ req[q].stream[role] = req[q].snap[role]
          /\ req[q].made[role] = 0
    /\ (req[q].fetched[role] \in {"empty", "error"} /\ req[q].stream[role] # 0)
       => /\ req[q].stream[role] = req[q].made[role]
          /\ req[q].stream[role] # req[q].snap[role]

C6_Witness ==
  \E q \in Requests : \E role \in Roles :
    /\ GoDone(q)
    /\ req[q].fetched[role] = "hit"
    /\ req[q].stream[role] = req[q].snap[role]
    /\ req[q].bound[role]
    /\ creates[req[q].ground][role] = 1

\* C7 as claimed, for a resolution that read the remembered id: the resolver
\* does not replace a remembered stream id while the stream it names still
\* exists on the remote platform.
C7_StableWhileStreamExists ==
  [][\A q \in Requests :
       LET g == req[q].ground
           role == req[q].role
       IN (/\ req[q].pc = "persist"
           /\ req[q].snap[role] # 0
           /\ dbGrounds[g][role] = req[q].snap[role]
           /\ dbGrounds[g][role] \in rStreams[role])
          => (req'[q] = req[q] \/ dbGrounds'[g][role] = dbGrounds[g][role])]_vars

\* C7 as amended: a venue's stream-id field for a role is written only by a
\* resolution for that venue and role whose own snapshot of the venue had no id
\* for the role, or whose fetch of the snapshot's id returned no item or threw
\* (for any reason, also while the stream still exists); the value written is
\* the id of the stream that resolution created.
C7_ReplacedOnlyAfterFailedFetch ==
  [][\A g \in Grounds : \A role \in Roles :
       dbGrounds'[g][role] # dbGrounds[g][role]
       => \E q \in Requests :
            /\ req[q].pc = "persist" /\ req'[q].pc = "insertBroadcast"
            /\ req[q].ground = g /\ req[q].role = role
            /\ \/ req[q].snap[role] = 0 /\ req[q].fetched[role] = "none"
               \/ req[q].snap[role] # 0 /\ req[q].fetched[role] \in {"empty", "error"}
            /\ req[q].made[role] # 0
            /\ dbGrounds'[g][role] = req[q].made[role]]_vars

C7_Witness ==
  \E q \in Requests : \E role \in Roles :
    /\ req[q].fetched[role] = "error"
    /\ req[q].snap[role] \in rStreams[role]
    /\ req[q].stream[role] = req[q].made[role]
    /\ dbGrounds[req[q].ground][role] = req[q].made[role]
    /\ writes[req[q].ground][role] = 2

\* C8: starting with no remembered stream id, each stream-id field of a venue
\* is written at most once and at most one stream is created per channel and
\* venue, under every interleaving of the requests.
C8_WrittenOnce ==
  \A g \in Grounds : \A role \in Roles :
    writes[g][role] <= 1 /\ creates[g][role] <= 1

\* C12: liveBroadcasts.bind is called only with the id of the broadcast that
\* this sub-flow's liveBroadcasts.insert returned and with the stream id that
\* this sub-flow's getExistingStream returned; a sub-flow whose broadcast
\* creation failed issues no bind call.
C12_BindArguments ==
  \A q \in Requests : \A role \in Roles :
    LET c == req[q].binds[role]
    IN /\ c # NoBind
          => /\ c.id = req[q].bcast[role]
             /\ c.id = NewBroadcastId(q, role)
             /\ \E x \in rBroadcasts : x.id = c.id /\ x.ch = role
             /\ c.streamId = req[q].stream[role]
             /\ c.streamId # 0
             /\ \/ req[q].fetched[role] = "hit" /\ c.streamId = req[q].snap[role]
                \/ req[q].fetched[role] # "hit" /\ c.streamId = req[q].made[role]
       /\ req[q].bcast[role] = 0 => c = NoBind
       /\ \A x \in rBroadcasts :
            (x.id = NewBroadcastId(q, role) /\ x.stream # 0)
              => x.stream = c.streamId /\ x.ch = role

C12_Witness ==
  \E q \in Requests :
    /\ req[q].binds["academy"] # NoBind
    /\ req[q].fetched["academy"] = "hit"
    /\ req[q].binds["company"] # NoBind
    /\ req[q].fetched["company"] = "error"
    /\ req[q].bound["company"]

\* C13: when liveBroadcasts.bind fails after the broadcast was created, the
\* broadcast stays on the platform, unbound (no broadcast is ever removed), and
\* the request is answered with a failure that carries the error.
BindFailed(q, role) ==
  /\ req[q].pc = "done"
  /\ req[q].binds[role] # NoBind
  /\ ~req[q].bound[role]

C13_BindFailureLeavesBroadcast ==
  [][/\ \A x \in rBroadcasts : \E y \in rBroadcasts' : y.id = x.id
     /\ \A q \in Requests : \A role \in Roles :
          BindFailed(q, role)'
            => /\ \E x \in rBroadcasts' :
                    x.id = req'[q].bcast[role] /\ x.ch = role /\ x.stream = 0
               /\ req'[q].response.code = 500
               /\ ~req'[q].response.success
               /\ req'[q].response.message = "liveBroadcasts.bind failed"]_vars

C13_Witness ==
  \E q \in Requests :
    /\ BindFailed(q, "company")
    /\ req[q].bound["academy"]
    /\ \E x \in rBroadcasts : x.id = req[q].bcast["company"] /\ x.stream = 0

\* C14: a request for a venue with no remembered stream ids, none of whose
\* calls fails, creates one stream and one broadcast on each channel, binds
\* each broadcast to its channel's stream and answers with both results; when
\* it is the only request, both ids stay remembered on the venue and nothing
\* else was created or written.
NoCallFailed(q) ==
  /\ GoDone(q)
  /\ req[q].found
  /\ req[q].response.message = "none"
  /\ \A role \in Roles : req[q].fetched[role] # "error"

OnlyRequest(q) == \A p \in Requests \ {q} : req[p].pc = "idle"

C14_EndToEndGoLive ==
  \A q \in Requests :
    (NoCallFailed(q) /\ req[q].snap = NoIds)
      => /\ req[q].response.code = 200
         /\ req[q].response.success
         /\ \A role \in Roles :
              /\ req[q].made[role] = NewStreamId(q, role)
              /\ req[q].bcast[role] = NewBroadcastId(q, role)
              /\ [id |-> req[q].bcast[role], ch |-> role,
                  stream |-> req[q].made[role]] \in rBroadcasts
              /\ writes[req[q].ground][role] >= 1
              /\ dbGrounds[req[q].ground][role] # 0
         /\ req[q].response.academyStream = req[q].made["academy"]
         /\ req[q].response.companyStream = req[q].made["company"]
         /\ OnlyRequest(q)
            => /\ dbGrounds[req[q].ground] = req[q].made
               /\ creates[req[q].ground] = [r \in Roles |-> 1]
               /\ writes[req[q].ground] = [r \in Roles |-> 1]
               /\ \A role \in Roles : rStreams[role] = {req[q].made[role]}
               /\ Cardinality(rBroadcasts) = 2

C14_Witness ==
  \E q \in Requests :
    /\ NoCallFailed(q)
    /\ req[q].snap = NoIds
    /\ OnlyRequest(q)
    /\ req[q].response.success
    /\ dbGrounds[req[q].ground] = req[q].made

\* the resolution for the role in request q had no remembered id, or its
\* fetch returned no item or threw
Degraded(q, role) ==
  /\ req[q].tried[role]
  /\ req[q].found
  /\ \/ req[q].snap[role] = 0
     \/ req[q].fetched[role] \in {"empty", "error"}

\* C21: with no remembered id for the role, or when the fetch of the
\* remembered id returns no item or fails, the resolver does not raise for
\* that: it goes on to create a stream (only the creation or the write can
\* still fail it), writes the new id to the venue's field for the role and
\* returns the new stream.
C21_DegradeAndRecreate ==
  [][\A q \in Requests : \A role \in Roles :
       Degraded(q, role)'
         => /\ (req[q].pc = "fetch" /\ req[q].role = role /\ req'[q].pc # "fetch")
               => req'[q].pc = "insertStream"
            /\ (req'[q].pc = "done" /\ req'[q].role = role /\ req'[q].stream[role] = 0)
               => req'[q].response.message \in
                    {"liveStreams.insert failed", "findOneAndUpdate failed"}
            /\ req'[q].stream[role] # 0
               => /\ req'[q].stream[role] = req'[q].made[role]
                  /\ req'[q].made[role] = NewStreamId(q, role)
                  /\ writes'[req'[q].ground][role] >= 1
            /\ (req[q].pc = "persist" /\ req[q].role = role /\ req'[q].stream[role] # 0)
               => dbGrounds'[req[q].ground][role] = req'[q].made[role]]_vars

C21_Witness ==
  \E q \in Requests :
    /\ req[q].fetched["academy"] = "error"
    /\ req[q].stream["academy"] = NewStreamId(q, "academy")
    /\ dbGrounds[req[q].ground]["academy"] = NewStreamId(q, "academy")
    /\ req[q].snap["academy"] \in rStreams["academy"]

\* requests whose write of the role's field of the ground is under way / threw
PendingWrites(g, role) ==
  Cardinality({q \in Requests :
                 req[q].ground = g /\ req[q].role = role /\ req[q].pc = "persist"})
FailedWrites(g, role) ==
  Cardinality({q \in Requests :
                 /\ req[q].ground = g /\ req[q].role = role /\ req[q].pc = "done"
                 /\ req[q].response.message = "findOneAndUpdate failed"})

\* C22: a resolution whose fetch returns the remembered stream creates no
\* stream and writes nothing; the venue record is written only by the write
\* call that follows a stream creation, and every created stream has exactly
\* one such call (it has succeeded, is under way, or threw).
C22_ReuseWritesNothing ==
  [][/\ \A q \in Requests :
          (req[q].pc = "fetch" /\ req'[q].fetched[req[q].role] = "hit")
            => /\ UNCHANGED <<dbGrounds, writes, creates, rStreams>>
               /\ req'[q].pc = "insertBroadcast"
               /\ req'[q].made[req[q].role] = 0
               /\ req'[q].stream[req[q].role] = req[q].snap[req[q].role]
     /\ \A q \in Requests : \A role \in Roles :
          (req'[q].fetched[role] = "hit" /\ req'[q].pc # "fetch")
            => req'[q].made[role] = 0
     /\ (dbGrounds' # dbGrounds \/ writes' # writes)
          => \E q \in Requests :
               LET role == req[q].role
                   g == req[q].ground
               IN /\ req[q].pc = "persist"
                  /\ req[q].made[role] # 0
                  /\ req[q].fetched[role] # "hit"
                  /\ writes' = [writes EXCEPT ![g][role] = @ + 1]
                  /\ dbGrounds' = [dbGrounds EXCEPT ![g][role] = req[q].made[role]]
     /\ \A g \in Grounds : \A role \in Roles :
          creates'[g][role] =
            writes'[g][role] + PendingWrites(g, role)' + FailedWrites(g, role)']_vars

C22_Witness ==
  \E q \in Requests :
    /\ GoDone(q)
    /\ req[q].response.success
    /\ req[q].fetched = [r \in Roles |-> "hit"]
    /\ req[q].made = NoIds
    /\ writes[req[q].ground] = [r \in Roles |-> 1]

\* C26: when a stream was created but the write of its id to the venue
\* fails, the sub-flow goes on to create and bind the broadcast with the
\* created stream, and the request is answered as a success for the channel.
C26_WriteFailureIsWarning ==
  \A q \in Requests :
    (GoDone(q) /\ req[q].made[req[q].role] # 0
       /\ req[q].response.message = "findOneAndUpdate failed")
      => /\ req[q].bound[req[q].role]
         /\ req[q].response.success

\* C28: in a channel's sub-flow the stream is resolved (fetched, or created
\* and written) before the broadcast is created, and the broadcast is created
\* before the bind call; a sub-flow whose resolution failed creates no
\* broadcast.
SubflowOrder ==
  \A q \in Requests : \A role \in Roles :
    LET made == \E x \in rBroadcasts : x.id = NewBroadcastId(q, role)
    IN /\ (req[q].bcast[role] # 0 \/ made)
          => /\ req[q].stream[role] # 0
             /\ \/ req[q].fetched[role] = "hit"
                \/ /\ req[q].stream[role] = req[q].made[role]
                   /\ writes[req[q].ground][role] >= 1
       /\ req[q].binds[role] # NoBind => req[q].bcast[role] # 0
       /\ (GoDone(q) /\ req[q].tried[role] /\ req[q].stream[role] = 0)
          => req[q].bcast[role] = 0 /\ ~made

C28_ResolveCreateBind ==
  [][/\ SubflowOrder'
     /\ \A q \in Requests : \A role \in Roles :
          /\ (req[q].bcast[role] = 0 /\ req'[q].bcast[role] # 0)
             => /\ req[q].stream[role] # 0
                /\ req[q].pc = "insertBroadcast"
                /\ req[q].binds[role] = NoBind
          /\ (req[q].binds[role] = NoBind /\ req'[q].binds[role] # NoBind)
             => /\ req[q].bcast[role] # 0
                /\ req[q].pc = "bind"]_vars

C28_Witness ==
  \E q \in Requests :
    /\ req[q].response.message = "liveStreams.insert failed"
    /\ req[q].role = "company"
    /\ req[q].bound["academy"]
    /\ req[q].bcast["company"] = 0
    /\ Cardinality(rBroadcasts) = 1

\* C29: a request whose academy is missing or has no tokens is answered with
\* a failure before any remote call or write; a request whose ground the
\* academy does not have is failed by the resolver before any remote call:
\* neither creates a stream or a broadcast nor writes the venue record.
C29_FailFast ==
  [][\A q \in Requests :
       (req'[q].pc # "idle" /\ req'[q].ground \notin Grounds)
         => /\ req'[q].pc = "done"
            /\ ~req'[q].response.success
            /\ \/ /\ req'[q].response.code = 400
                  /\ req'[q].response.message = "Academy not authenticated"
               \/ /\ req'[q].response.code = 500
                  /\ req'[q].response.message \in {"Ground not found", "findOne failed"}
            /\ req'[q].fetched = [r \in Roles |-> "none"]
            /\ req'[q].made = NoIds
            /\ req'[q].stream = NoIds
            /\ req'[q].bcast = NoIds
            /\ \A x \in rBroadcasts' :
                 \A role \in Roles : x.id # NewBroadcastId(q, role)
            /\ req[q].pc = "idle"
               => UNCHANGED <<dbGrounds, rStreams, rBroadcasts, creates, writes>>]_vars

C29_Witness ==
  /\ req[1].response.code = 400
  /\ req[2].response.message = "Ground not found"
  /\ req[2].ground = UnknownGround
  /\ rBroadcasts = {}

\* C30: a write of the stream id for venue G and role R changes G's field for
\* R and nothing else of the academy's venues; under every interleaving of
\* requests and sub-flows a remembered id is replaced only by a write for
\* its own venue and role, and never cleared.
C30_WriteTouchesOneField ==
  [][\A g \in Grounds : \A r \in Roles :
       dbGrounds'[g][r] # dbGrounds[g][r]
         => /\ dbGrounds'[g][r] # 0
            /\ \E q \in Requests :
                 /\ req[q].pc = "persist"
                 /\ req[q].ground = g
                 /\ req[q].role = r
                 /\ dbGrounds' = [dbGrounds EXCEPT ![g][r] = req[q].made[r]]]_vars

C30_Witness ==
  /\ req[1].ground = "G1"
  /\ req[2].ground = "G2"
  /\ req[1].pc = "bind" /\ req[1].role = "company"
  /\ GoDone(2) /\ req[2].response.success
  /\ dbGrounds["G1"] = req[1].made
  /\ dbGrounds["G2"] = req[2].made
  /\ \A r \in Roles : req[1].made[r] # 0 /\ req[2].made[r] # 0

\* C35: a request answers success = true only if, for the academy and for
\* the company channel, a stream was resolved, a broadcast was created by
\* this request and its bind call returned; the broadcast a request creates
\* is a new one, with an id no other request's broadcast has; and the stream
\* id returned for a channel is the remembered one (the id the request read
\* on the venue) whenever the fetch of that id returns the stream.
BroadcastsMade == {<<q, role>> \in Requests \X Roles : req[q].bcast[role] # 0}

C35_SuccessConditions ==
  /\ \A q \in Requests :
       req[q].response.success =>
         /\ GoDone(q)
         /\ req[q].response.code = 200
         /\ \A role \in Roles :
              /\ req[q].tried[role]
              /\ req[q].stream[role] # 0
              /\ req[q].fetched[role] = "hit" =>
                   /\ req[q].stream[role] = req[q].snap[role]
                   /\ req[q].made[role] = 0
              /\ req[q].fetched[role] # "hit" =>
                   /\ req[q].stream[role] = req[q].made[role]
                   /\ req[q].made[role] = NewStreamId(q, role)
              /\ req[q].bcast[role] # 0
              /\ req[q].bound[role]
              /\ req[q].binds[role] = [id |-> req[q].bcast[role],
                                       streamId |-> req[q].stream[role]]
              /\ [id |-> req[q].bcast[role], ch |-> role,
                  stream |-> req[q].stream[role]] \in rBroadcasts
              /\ \A p \in Requests \ {q}, r \in Roles :
                   req[p].bcast[r] # req[q].bcast[role]
         /\ req[q].bcast["academy"] # req[q].bcast["company"]
         /\ req[q].response.academyStream = req[q].stream["academy"]
         /\ req[q].response.companyStream = req[q].stream["company"]
  \* every successful liveBroadcasts.insert added a broadcast of its own
  /\ Cardinality({b.id : b \in rBroadcasts}) = Cardinality(BroadcastsMade)
  /\ Cardinality(rBroadcasts) = Cardinality(BroadcastsMade)

\* the second request succeeds with the streams the first one created and
\* remembered, and with two broadcasts of its own
C35_Witness ==
  /\ req[1].response.success
  /\ req[2].response.success
  /\ req[2].ground = req[1].ground
  /\ \A role \in Roles :
       /\ req[2].fetched[role] = "hit"
       /\ req[2].stream[role] = req[1].made[role]
       /\ req[1].made[role] # 0
  /\ req[2].response.academyStream = req[1].response.academyStream
  /\ Cardinality(rBroadcasts) = 4

(***************************************************************************)
(* Properties of POST /end-stream, checked under SpecEnd and SpecEndFinal  *)
(***************************************************************************)
\* both endBroadcast calls returned: no call of the request failed
NoEndFailure == \A ch \in Roles : task[ch].pc \in {"true", "false"}
\* the list call of the channel returned
HasListed(ch) == task[ch].pc \in {"transition", "true", "false"} \/ transitions[ch] # <<>>
\* the positions of the listing whose title matches the request's title
MatchingItems(ch) ==
  {i \in 1..Len(task[ch].listed) : compareStrings(task[ch].listed[i].title, etitle)}
ActiveIds(ch) == {active[ch][i].id : i \in 1..Len(active[ch])}
Reported(ch) ==
  IF ch = "academy" THEN eresponse.academyStreamEnded ELSE eresponse.companyStreamEnded
\* the channel's call found a matching broadcast and completed it
Completed(ch) ==
  /\ task[ch].pc = "true"
  /\ MatchingItems(ch) # {}
  /\ \E i \in MatchingItems(ch) :
       /\ task[ch].listed[i].id = task[ch].target
       /\ \A j \in MatchingItems(ch) : i <= j
  /\ transitions[ch] = <<task[ch].target>>
  /\ task[ch].target \notin ActiveIds(ch)
  /\ active[ch] = SelectSeq(task[ch].listed, LAMBDA b : b.id # task[ch].target)

\* C15: after a go-live with title T whose broadcasts are active on both
\* channels, an /end-stream request with title T none of whose calls fails
\* completes a broadcast titled T on each channel (the first match of the
\* listing, which contains the go-live's broadcast) and answers with
\* academyStreamEnded = true and companyStreamEnded = true.
C15_EndAfterGoLive ==
  (etitle \in golive /\ NoEndFailure)
    => /\ eresponse.code = 200
       /\ eresponse.success = "true"
       /\ eresponse.academyStreamEnded = "true"
       /\ eresponse.companyStreamEnded = "true"
       /\ \A ch \in Roles :
            /\ Completed(ch)
            /\ \E i \in 1..Len(task[ch].listed) :
                 task[ch].listed[i].title = BroadcastTitle(etitle)
            /\ Cardinality(MatchingItems(ch)) = 1
               => \E i \in MatchingItems(ch) :
                    /\ task[ch].listed[i].title = BroadcastTitle(etitle)
                    /\ task[ch].listed[i].id = task[ch].target

C15_Witness ==
  /\ variant = "part_001"
  /\ etitle \in golive
  /\ NoEndFailure
  /\ eresponse.academyStreamEnded = "true"
  /\ eresponse.companyStreamEnded = "true"
  /\ Len(task["company"].listed) = 2
  /\ Len(active["company"]) = 1

\* C16: in final.js the title searched on the company channel is the title
\* under which go-live created the company broadcast, so an /end-stream with
\* the go-live's title, none of whose calls fails, answers with
\* companyStreamEnded = true.
C16_CompanyTitleIsGoLiveTitle ==
  (variant = "final" /\ etitle \in golive /\ NoEndFailure)
    => /\ SearchTitle(etitle, "company") = BroadcastTitle(etitle)
       /\ eresponse.companyStreamEnded = "true"

\* C17: a channel whose list or transition call fails, or that has no matching
\* broadcast, does not hold up the other channel: the other channel's call was
\* started with it, each of its steps stays possible, and when its own calls
\* return its first matching broadcast is completed.
C17_ChannelsIndependent ==
  \A ch \in Roles :
    task[Other(ch)].pc \in {"rejected", "false"}
      => /\ task[ch].pc # "none"
         /\ task[ch].pc = "list" => ENABLED ListActiveBroadcasts(ch)
         /\ task[ch].pc = "transition"
            => /\ ENABLED TransitionToComplete(ch)
               /\ MatchingItems(ch) # {}
         /\ (HasListed(ch) /\ MatchingItems(ch) # {} /\ task[ch].pc # "rejected")
            => task[ch].pc \in {"transition", "true"}
         /\ task[ch].pc = "true" => Completed(ch)

C17_Witness ==
  /\ task["academy"].pc = "rejected"
  /\ eresponse.code = 500
  /\ Completed("company")
  /\ Len(task["company"].listed) = 2

\* C18: every response of an /end-stream request that reached the channel
\* calls (also one whose call on a channel failed) reports a status for each of
\* the two channels, and a channel whose broadcast the request completed is
\* reported as ended.
C18_PerChannelReport ==
  (eresponse.code # 0 /\ epc = "tasks")
    => \A ch \in Roles :
         /\ Reported(ch) # "absent"
         /\ task[ch].pc = "true" => Reported(ch) = "true"

\* C19: when the listing of a channel has no broadcast whose title matches, no
\* transition is requested for the channel, its call returns false, and the
\* request does not fail because of it: unless the other channel's call threw,
\* the answer is the success report, with false for the channel.
NoMatch(ch) == HasListed(ch) /\ MatchingItems(ch) = {}

C19_NotFoundIsNormal ==
  \A ch \in Roles :
    NoMatch(ch)
      => /\ transitions[ch] = <<>>
         /\ task[ch].pc = "false"
         /\ task[ch].target = 0
         /\ active[ch] = task[ch].listed
         /\ eresponse.code \in {0, 200, 500}
         /\ eresponse.code = 500 => task[Other(ch)].pc = "rejected"
         /\ task[Other(ch)].pc \in {"true", "false"}
            => /\ eresponse.code = 200
               /\ eresponse.success = "true"
               /\ Reported(ch) = "false"

C19_Witness ==
  /\ NoMatch("company")
  /\ Len(task["company"].listed) = 2
  /\ Completed("academy")
  /\ eresponse.code = 200
  /\ eresponse.companyStreamEnded = "false"

\* C36: per request and per channel at most one transition-to-complete
\* request is issued, and only for a broadcast that the channel's listing of
\* active broadcasts returned and whose whitespace-normalized title equals
\* the normalized target title, the first such broadcast in listing order;
\* a broadcast whose title does not match is never transitioned, and the
\* other active broadcasts, those of the same title included, stay active.
SameTitle(b) == normalize(b.title) = normalize(etitle)
\* the positions in the channel's listing of the broadcasts of the target title
SameTitleAt(ch) ==
  {i \in 1..Len(task[ch].listed) : SameTitle(task[ch].listed[i])}

C36_OneTransitionPerChannel ==
  \A ch \in Roles :
    /\ Len(transitions[ch]) <= 1
    /\ \A k \in 1..Len(transitions[ch]) :
         \E i \in SameTitleAt(ch) :
           /\ task[ch].listed[i].id = transitions[ch][k]
           /\ \A j \in SameTitleAt(ch) : i <= j
    /\ \A i \in 1..Len(task[ch].listed) :
         (\A k \in 1..Len(transitions[ch]) :
            task[ch].listed[i].id # transitions[ch][k])
           => task[ch].listed[i].id \in ActiveIds(ch)

\* two active broadcasts of the channel have the target title: the first
\* was completed, the second is still active
C36_Witness ==
  /\ epc = "tasks"
  /\ eresponse.code = 200
  /\ Len(task["academy"].listed) = 2
  /\ SameTitleAt("academy") = {1, 2}
  /\ task["academy"].listed[1].title # task["academy"].listed[2].title
  /\ transitions["academy"] = <<task["academy"].listed[1].id>>
  /\ ActiveIds("academy") = {task["academy"].listed[2].id}

(***************************************************************************)
(* Properties of compareStrings, checked under SpecCompare                 *)
(***************************************************************************)
\* the words of a string: its maximal runs of characters that are not white
\* space, in order
WordStarts(s) == {i \in 1..Len(s) : ~IsSpace(s[i]) /\ (i = 1 \/ IsSpace(s[i - 1]))}
WordEnd(s, i) ==
  CHOOSE j \in i..Len(s) :
    /\ \A k \in i..j : ~IsSpace(s[k])
    /\ j = Len(s) \/ IsSpace(s[j + 1])
NthStart(s, n) ==
  CHOOSE i \in WordStarts(s) : Cardinality({j \in WordStarts(s) : j < i}) = n - 1
WordsOf(s) ==
  [n \in 1..Cardinality(WordStarts(s)) |->
     SubSeq(s, NthStart(s, n), WordEnd(s, NthStart(s, n)))]
\* no white space at either end, and all white space is single spaces
IsClean(s) ==
  /\ s # <<>> => ~IsSpace(s[1]) /\ ~IsSpace(s[Len(s)])
  /\ \A i \in 1..Len(s) : IsSpace(s[i]) => s[i] = " "
  /\ \A i \in 1..(Len(s) - 1) : ~(IsSpace(s[i]) /\ IsSpace(s[i + 1]))
Lower(c) == IF c = "U" THEN "u" ELSE c
\* equal but for the case of at least one letter
DifferInCase(a, b) ==
  /\ Len(a) = Len(b)
  /\ \A i \in 1..Len(a) : Lower(a[i]) = Lower(b[i])
  /\ a # b

\* C20: compareStrings(a, b) is true exactly when a and b are the same after
\* trimming and collapsing every white-space run to one space, that is when
\* they have the same words in the same order; strings that differ only in
\* white-space runs match, strings that differ in the case of a letter do not.
C20_CompareStrings ==
  cmpResult # "none"
    => /\ cmpResult = "equal" <=> WordsOf(str1) = WordsOf(str2)
       /\ \A s \in {str1, str2} :
            /\ IsClean(normalize(s))
            /\ WordsOf(normalize(s)) = WordsOf(s)
       /\ DifferInCase(str1, str2) => cmpResult = "different"

C20_Witness ==
  /\ str1 = <<"U", " ", "\t", "u">>
  /\ str2 = <<" ", "U", " ", "u">>
  /\ cmpResult = "equal"

(***************************************************************************)
(* Properties of the Company collection, checked under SpecCompany         *)
(***************************************************************************)
\* the step is a `tokens` event whose write succeeded
RotationPersisted == lastRotation'.n = lastRotation.n + 1 /\ lastRotation'.persisted

\* C31: after every token-rotation event on a company credential handle, the
\* persisted company token blob is the previously persisted blob overlaid
\* with the newly rotated tokens: the new values override and every other
\* persisted field is kept, so no field persisted by an earlier rotation is
\* lost by a later one.
C31_RotationMerge ==
  [][RotationPersisted =>
       companies'[lastRotation'.company].tokens =
         Spread(companies[lastRotation'.company].tokens, lastRotation'.newTokens)]_vars

\* C32: after any interleaving of POST /company requests, at most one
\* Company document exists; a request that creates nothing is rejected, and at
\* most one request creates a document.
C32_CompanySingleton ==
  /\ Len(companies) <= 1
  /\ Cardinality({r \in Posts : post[r].response.created # 0}) <= 1
  /\ \A r \in Posts :
       (post[r].pc = "done" /\ post[r].response.created = 0)
         => post[r].response.code >= 400
====
